---- MODULE Spec2Model ----
(***************************************************************************)
(* Model of app.py: the Streamlit "code answer search" page.               *)
(*                                                                         *)
(* Text is a sequence of one-character strings, so that the regular        *)
(* expression of extract_code_blocks is matched character by character.    *)
(* Python's None is the distinguished value None below.                    *)
(***************************************************************************)
EXTENDS Integers, Sequences, FiniteSets, TLC

\* ------------------------------------------------------------------------
\* Bounds of the model
\* ------------------------------------------------------------------------
MaxFrags == 4
MaxDocs == 2

\* ------------------------------------------------------------------------
\* Text primitives
\* ------------------------------------------------------------------------
None == <<"<None>">>

\* the backtick character
BT == "backtick"

Fence == <<BT, BT, BT>>
PythonTag == <<"p", "y", "t", "h", "o", "n">>
NL == <<"\n">>
CodeOpen == <<"<", "c", "o", "d", "e", ">">>
CodeClose == <<"<", "/", "c", "o", "d", "e", ">">>
DefKw == <<"d", "e", "f">>
ClassKw == <<"c", "l", "a", "s", "s">>
Indent == <<" ", " ", " ", " ">>
ColonNLIndent == <<":", "\n", " ", " ", " ", " ">>

\* \s of the re module and the characters str.strip() removes
IsSpace(c) == c \in {" ", "\n", "\t", "\r"}

\* \w of the re module
IsWord(c) ==
    c \in {"a", "b", "c", "d", "e", "f", "g", "h", "i", "j", "k", "l", "m",
           "n", "o", "p", "q", "r", "s", "t", "u", "v", "w", "x", "y", "z",
           "0", "1", "2", "3", "4", "5", "6", "7", "8", "9", "_"}

\* the literal lit occurs in s at position i (1-based)
HasAt(s, i, lit) ==
    /\ i >= 1
    /\ i + Len(lit) - 1 <= Len(s)
    /\ SubSeq(s, i, i + Len(lit) - 1) = lit

Min(S) == CHOOSE x \in S : \A y \in S : x <= y
Max(S) == CHOOSE x \in S : \A y \in S : x >= y

\* position of the first occurrence of lit in s at or after from; 0 if none
\* (what a lazy .*? followed by the literal finds)
FirstAt(s, from, lit) ==
    LET occ == {k \in from..Len(s) : HasAt(s, k, lit)}
    IN IF occ = {} THEN 0 ELSE Min(occ)

\* position of the last newline of s; 0 if none
\* (where a greedy .* followed by \n stops under DOTALL)
LastNewline(s) ==
    LET occ == {k \in 1..Len(s) : s[k] = "\n"}
    IN IF occ = {} THEN 0 ELSE Max(occ)

\* str.strip(): drop leading and trailing whitespace
RECURSIVE LStrip(_)
LStrip(s) ==
    IF s # <<>> /\ IsSpace(Head(s)) THEN LStrip(Tail(s)) ELSE s

RECURSIVE RStrip(_)
RStrip(s) ==
    IF s # <<>> /\ IsSpace(s[Len(s)]) THEN RStrip(SubSeq(s, 1, Len(s) - 1)) ELSE s

Strip(s) == RStrip(LStrip(s))

\* sep.join(parts)
RECURSIVE Join(_, _)
Join(parts, sep) ==
    IF parts = <<>> THEN <<>>
    ELSE IF Len(parts) = 1 THEN parts[1]
    ELSE parts[1] \o sep \o Join(Tail(parts), sep)

\* ------------------------------------------------------------------------
\* code_pattern: the three alternatives of the regular expression, tried in
\* order at a position i.  A match records which alternative matched, where
\* it starts (start), the position after its last character (end), where its
\* capture group starts (gs), and the two capture groups (a group that did
\* not take part is the empty string, as in findall).
\* ------------------------------------------------------------------------
NoMatch == [ok |-> FALSE, kind |-> "none", start |-> 0, end |-> 0, gs |-> 0,
            g1 |-> <<>>, g2 |-> <<>>]

\* the first alternative with the closing fence optional: an unterminated
\* fence captures up to the end of the text
FencedAltOpenEnded(s, i) ==
    IF ~HasAt(s, i, Fence) THEN NoMatch
    ELSE LET body == IF HasAt(s, i + 3, PythonTag \o NL) THEN i + 10
                     ELSE IF HasAt(s, i + 3, NL) THEN i + 4
                     ELSE 0
             close == IF body = 0 THEN 0 ELSE FirstAt(s, body, Fence)
         IN IF body = 0 THEN NoMatch
            ELSE IF close = 0
            THEN [ok |-> TRUE, kind |-> "fenced", start |-> i, end |-> Len(s) + 1,
                  gs |-> body, g1 |-> SubSeq(s, body, Len(s)), g2 |-> <<>>]
            ELSE [ok |-> TRUE, kind |-> "fenced", start |-> i, end |-> close + 3,
                  gs |-> body, g1 |-> SubSeq(s, body, close - 1), g2 |-> <<>>]

\* first alternative (line 55): three backticks, an optional python, a
\* newline, a lazy capture, three backticks
FencedAlt(s, i) ==
    IF ~HasAt(s, i, Fence) THEN NoMatch
    ELSE LET body == IF HasAt(s, i + 3, PythonTag \o NL) THEN i + 10
                     ELSE IF HasAt(s, i + 3, NL) THEN i + 4
                     ELSE 0
             close == IF body = 0 THEN 0 ELSE FirstAt(s, body, Fence)
         IN IF close = 0 THEN NoMatch
            ELSE [ok |-> TRUE, kind |-> "fenced", start |-> i, end |-> close + 3,
                  gs |-> body, g1 |-> SubSeq(s, body, close - 1), g2 |-> <<>>]

\* <code>(.*?)</code>
CodeTagAlt(s, i) ==
    IF ~HasAt(s, i, CodeOpen) THEN NoMatch
    ELSE LET close == FirstAt(s, i + 6, CodeClose)
         IN IF close = 0 THEN NoMatch
            ELSE [ok |-> TRUE, kind |-> "code", start |-> i, end |-> close + 7,
                  gs |-> i + 6, g1 |-> <<>>, g2 |-> SubSeq(s, i + 6, close - 1)]

\* (?:def|class)\s+\w+.*?:\n(?:    .*\n)+   -- no capture group.
\* Under DOTALL the greedy .* of the repeated group runs to the last newline
\* of the text, so the match ends right after that newline.
DefAlt(s, i) ==
    LET kw == IF HasAt(s, i, DefKw) THEN 3
              ELSE IF HasAt(s, i, ClassKw) THEN 5
              ELSE 0
        last == LastNewline(s)
    IN IF kw = 0 THEN NoMatch
       ELSE IF \E a \in (i + kw)..Len(s) :
                 /\ \A k \in (i + kw)..a : IsSpace(s[k])
                 /\ \E b \in (a + 1)..Len(s) :
                      /\ \A k \in (a + 1)..b : IsWord(s[k])
                      /\ \E p \in (b + 1)..Len(s) :
                           /\ HasAt(s, p, ColonNLIndent)
                           /\ last >= p + 6
            THEN [ok |-> TRUE, kind |-> "def", start |-> i, end |-> last + 1,
                  gs |-> 0, g1 |-> <<>>, g2 |-> <<>>]
            ELSE NoMatch

\* the alternation: the first alternative that matches at i wins
MatchAt(s, i) ==
    LET fenced == FencedAlt(s, i)
        code == CodeTagAlt(s, i)
    IN IF fenced.ok THEN fenced
       ELSE IF code.ok THEN code
       ELSE DefAlt(s, i)

\* code_pattern.findall(content): non-overlapping matches, left to right
RECURSIVE FindAllFrom(_, _)
FindAllFrom(s, i) ==
    IF i > Len(s) THEN <<>>
    ELSE LET m == MatchAt(s, i)
         IN IF m.ok THEN <<m>> \o FindAllFrom(s, m.end)
            ELSE FindAllFrom(s, i + 1)

findall(s) == FindAllFrom(s, 1)

\* ------------------------------------------------------------------------
\* extract_code_blocks
\* ------------------------------------------------------------------------
\* if not content
Falsy(content) == content = None \/ content = <<>>

\* m.strip() is truthy
KeepGroup(g) == Strip(g) # <<>>

\* newline.join([m for m in match if m.strip()])
JoinGroups(m) == Join(SelectSeq(<<m.g1, m.g2>>, KeepGroup), NL)

\* re.sub of ^\s*\n by the empty string: the leading whitespace run is removed up to
\* and including its last newline
RemoveLeadingEmptyLines(block) ==
    LET run == Len(block) - Len(LStrip(block))
        nls == {k \in 1..run : block[k] = "\n"}
    IN IF nls = {} THEN block
       ELSE SubSeq(block, Max(nls) + 1, Len(block))

\* the substitution with \n+$ for \s+$: only trailing newlines go
RECURSIVE RemoveTrailingNewlines(_)
RemoveTrailingNewlines(block) ==
    IF block # <<>> /\ block[Len(block)] = "\n"
    THEN RemoveTrailingNewlines(SubSeq(block, 1, Len(block) - 1))
    ELSE block

\* re.sub of \s+$ by the empty string
RemoveTrailingWhitespace(block) == RStrip(block)

CleanBlock(block) == RemoveTrailingWhitespace(RemoveLeadingEmptyLines(block))

\* the loop with code_blocks.insert(0, block) for code_blocks.append(block)
RECURSIVE ExtractLoopPrepend(_)
ExtractLoopPrepend(matches) ==
    IF matches = <<>> THEN <<>>
    ELSE LET m == Head(matches)
             block == JoinGroups(m)
         IN IF block # <<>>
            THEN ExtractLoopPrepend(Tail(matches))
                 \o <<[block |-> CleanBlock(block), kind |-> m.kind,
                       start |-> m.start, end |-> m.end,
                       gs |-> m.gs, ge |-> m.gs + Len(block)]>>
            ELSE ExtractLoopPrepend(Tail(matches))

\* the for loop over the matches; every appended block is paired with the
\* match it was made from (the span of the match and of its capture group in
\* the content)
RECURSIVE ExtractLoop(_)
ExtractLoop(matches) ==
    IF matches = <<>> THEN <<>>
    ELSE LET m == Head(matches)
             block == JoinGroups(m)
         IN IF block # <<>>
            THEN <<[block |-> CleanBlock(block), kind |-> m.kind,
                    start |-> m.start, end |-> m.end,
                    gs |-> m.gs, ge |-> m.gs + Len(block)]>>
                 \o ExtractLoop(Tail(matches))
            ELSE ExtractLoop(Tail(matches))

ExtractEntries(content) ==
    IF Falsy(content) THEN <<>> ELSE ExtractLoop(findall(content))

\* the returned list
BlocksOf(e) == [k \in 1..Len(e) |-> e[k].block]

\* where each returned block comes from, in the order of the returned list
SourcesOf(e) ==
    [k \in 1..Len(e) |->
       [kind |-> e[k].kind, start |-> e[k].start, end |-> e[k].end,
        gs |-> e[k].gs, ge |-> e[k].ge]]

extract_code_blocks(content) == BlocksOf(ExtractEntries(content))

\* ------------------------------------------------------------------------
\* Inputs
\* ------------------------------------------------------------------------
\* pieces of text a fetched page is put together from
Fragments ==
    { Fence \o NL,
      Fence \o PythonTag \o NL,
      Fence \o <<"j", "s">> \o NL,
      Fence,
      CodeOpen,
      CodeClose,
      CodeOpen \o <<"x">> \o CodeClose,
      <<"x">>,
      <<"y">>,
      NL,
      Indent,
      DefKw \o <<" ", "f", "(", ")", ":">> \o NL }

RECURSIVE Concat(_)
Concat(parts) ==
    IF parts = <<>> THEN <<>> ELSE Head(parts) \o Concat(Tail(parts))

\* content is a text of at most MaxFrags fragments, or the missing text
IsContent(c) ==
    \/ c = None
    \/ \E n \in 0..MaxFrags : \E fs \in [1..n -> Fragments] : c = Concat(fs)

\* what the user may have typed in the text input
Questions ==
    { <<>>, <<" ">>, <<" ", "\t">>, <<"q">>, <<" ", "q", " ">> }

\* the raw_content of a result document
RawContents ==
    { None,
      <<>>,
      <<"x">>,
      Fence \o NL \o <<"x">> \o NL \o Fence,
      CodeOpen \o <<"x">> \o CodeClose \o Fence \o PythonTag \o NL \o <<"y">> \o Fence }

Urls == {"u1", "u2"}

Documents == [url : Urls, raw_content : RawContents]

DocLists == UNION { [1..n -> Documents] : n \in 0..MaxDocs }

\* what tavily_client.search hands back: a dict, with or without a results
\* key and with or without other keys (query, response_time, ...)
NoResponse == [tag |-> "None", has_results |-> FALSE, other_keys |-> FALSE,
               results |-> <<>>]

Responses ==
    { [tag |-> "dict", has_results |-> TRUE, other_keys |-> o, results |-> ds] :
        o \in BOOLEAN, ds \in DocLists }
    \cup
    { [tag |-> "dict", has_results |-> FALSE, other_keys |-> o, results |-> <<>>] :
        o \in BOOLEAN }

\* ------------------------------------------------------------------------
\* State
\* ------------------------------------------------------------------------
VARIABLES
    pc,              \* where the script is
    question,        \* the text of the input box at the click
    client,          \* what get_tavily_client returned
    raised,          \* whether tavily_client.search raised
    results,         \* what search_coding_answers returned
    ui,              \* the messages and widgets written to the page, in order
    clients_created, \* TavilyClient objects constructed
    provider_calls,  \* calls of tavily_client.search that went out
    extract_calls,   \* indexes of the documents extract_code_blocks was called for
    doc_i,           \* the loop index of display_results
    content,         \* the argument of the last extract_code_blocks call
    code_blocks,     \* what that call returned
    block_src        \* where each returned block comes from in content

vars == <<pc, question, client, raised, results, ui, clients_created,
          provider_calls, extract_calls, doc_i, content, code_blocks, block_src>>

Msg(kind, text) == [kind |-> kind, text |-> text]

OfKind(kind) == SelectSeq(ui, LAMBDA e : e.kind = kind)

Init ==
    /\ pc = "idle"
    /\ question = <<>>
    /\ client = None
    /\ raised = FALSE
    /\ results = NoResponse
    /\ ui = <<>>
    /\ clients_created = 0
    /\ provider_calls = 0
    /\ extract_calls = <<>>
    /\ doc_i = 0
    /\ content = None
    /\ code_blocks = <<>>
    /\ block_src = <<>>

\* ------------------------------------------------------------------------
\* main
\* ------------------------------------------------------------------------
\* the check without the strip: not question
IsBlankNoStrip(q) == q = <<>>

\* not question.strip()
IsBlank(q) == Strip(q) = <<>>

\* the click on the search button with q in the input box
ClickSearch ==
    /\ pc = "idle"
    /\ \E q \in Questions :
         /\ question' = q
         /\ IF IsBlank(q)
            THEN /\ ui' = Append(ui, Msg("warning", "Please enter a question first."))
                 /\ pc' = "done"
            ELSE /\ ui' = ui
                 /\ pc' = "get_client"
    /\ UNCHANGED <<client, raised, results, clients_created, provider_calls,
                   extract_calls, doc_i, content, code_blocks, block_src>>

\* the check with the not left out: if tavily_client
ClientFalsyInverted(c) == c # None

\* if not tavily_client
ClientFalsy(c) == c = None

\* get_tavily_client as search_coding_answers calls it, with the early
\* return of search_coding_answers when there is no client
get_tavily_client ==
    /\ pc = "get_client"
    /\ \E secret_ok \in BOOLEAN :
         IF secret_ok
         THEN /\ client' = <<"TavilyClient">>
              /\ clients_created' = clients_created + 1
              /\ ui' = ui
         ELSE /\ client' = None
              /\ clients_created' = clients_created
              /\ ui' = Append(ui, Msg("error", "Failed to initialize search client"))
    /\ IF ClientFalsy(client')
       THEN /\ results' = NoResponse
            /\ pc' = "returned"
       ELSE /\ results' = results
            /\ pc' = "search"
    /\ UNCHANGED <<question, raised, provider_calls, extract_calls, doc_i,
                   content, code_blocks, block_src>>

\* the rest of search_coding_answers, its try block: the call goes out once; it returns
\* a response or raises.  A call on a missing client raises before anything
\* goes out.
search_coding_answers ==
    /\ pc = "search"
    /\ IF client = None
       THEN /\ provider_calls' = provider_calls
            /\ raised' = TRUE
            /\ results' = NoResponse
            /\ ui' = Append(ui, Msg("error", "Search failed"))
       ELSE /\ provider_calls' = provider_calls + 1
            /\ \/ /\ raised' = TRUE
                  /\ results' = NoResponse
                  /\ ui' = Append(ui, Msg("error", "Search failed"))
               \/ /\ raised' = FALSE
                  /\ results' \in Responses
                  /\ ui' = ui
    /\ pc' = "returned"
    /\ UNCHANGED <<question, client, clients_created, extract_calls, doc_i,
                   content, code_blocks, block_src>>

\* the check taken as: results and results.get("results")
TruthyNeedsResults(r) == r.tag = "dict" /\ r.has_results /\ r.results # <<>>

\* truth value of a dict or None
Truthy(r) == r.tag = "dict" /\ (r.has_results \/ r.other_keys)

\* if results: display_results(results) else: st.error(...)
HandleResults ==
    /\ pc = "returned"
    /\ IF Truthy(results)
       THEN /\ pc' = "display"
            /\ ui' = ui
       ELSE /\ pc' = "done"
            /\ ui' = Append(ui, Msg("error", "Failed to retrieve results. Please try again later."))
    /\ UNCHANGED <<question, client, raised, results, clients_created,
                   provider_calls, extract_calls, doc_i, content, code_blocks,
                   block_src>>

\* ------------------------------------------------------------------------
\* display_results
\* ------------------------------------------------------------------------
\* not results or not results.get("results")
NothingToShow(r) == ~Truthy(r) \/ ~r.has_results \/ r.results = <<>>

display_results ==
    /\ pc = "display"
    /\ IF NothingToShow(results)
       THEN /\ ui' = Append(ui, Msg("warning", "No results found. Try rephrasing your question."))
            /\ pc' = "done"
            /\ doc_i' = doc_i
       ELSE /\ ui' = Append(ui, Msg("subheader", "Search Results"))
            /\ pc' = "loop"
            /\ doc_i' = 1
    /\ UNCHANGED <<question, client, raised, results, clients_created,
                   provider_calls, extract_calls, content, code_blocks, block_src>>

\* the check taken as: "raw_content" in result (every document has the key)
HasRawContentKey(doc) == doc.url \in Urls

\* if raw_content := result.get("raw_content")
HasRawContent(doc) == ~Falsy(doc.raw_content)

\* st.code for every block
CodeMsgs(blocks) == [k \in 1..Len(blocks) |-> Msg("code", blocks[k])]

\* one turn of the for loop over results["results"]
DisplayResult ==
    /\ pc = "loop"
    /\ LET doc == results.results[doc_i]
           shown == Append(ui, [kind |-> "result", text |-> doc.url, n |-> doc_i])
       IN IF HasRawContent(doc)
          THEN /\ extract_calls' = Append(extract_calls, doc_i)
               /\ content' = doc.raw_content
               /\ code_blocks' = extract_code_blocks(doc.raw_content)
               /\ block_src' = SourcesOf(ExtractEntries(doc.raw_content))
               /\ ui' = shown \o CodeMsgs(code_blocks')
          ELSE /\ ui' = shown
               /\ UNCHANGED <<extract_calls, content, code_blocks, block_src>>
    /\ IF doc_i < Len(results.results)
       THEN /\ doc_i' = doc_i + 1
            /\ pc' = "loop"
       ELSE /\ doc_i' = doc_i
            /\ pc' = "done"
    /\ UNCHANGED <<question, client, raised, results, clients_created,
                   provider_calls>>

\* the next interaction reruns the script on a fresh page
Rerun ==
    /\ pc = "done"
    /\ pc' = "idle"
    /\ question' = <<>>
    /\ client' = None
    /\ raised' = FALSE
    /\ results' = NoResponse
    /\ ui' = <<>>
    /\ clients_created' = 0
    /\ provider_calls' = 0
    /\ extract_calls' = <<>>
    /\ doc_i' = 0
    /\ content' = None
    /\ code_blocks' = <<>>
    /\ block_src' = <<>>

Next ==
    \/ ClickSearch
    \/ get_tavily_client
    \/ search_coding_answers
    \/ HandleResults
    \/ display_results
    \/ DisplayResult
    \/ Rerun

Spec == Init /\ [][Next]_vars

\* ------------------------------------------------------------------------
\* extract_code_blocks on its own: any text of at most MaxFrags fragments,
\* one call
\* ------------------------------------------------------------------------
InitExtract ==
    /\ pc = "extract"
    /\ IsContent(content)
    /\ question = <<>>
    /\ client = None
    /\ raised = FALSE
    /\ results = NoResponse
    /\ ui = <<>>
    /\ clients_created = 0
    /\ provider_calls = 0
    /\ extract_calls = <<>>
    /\ doc_i = 0
    /\ code_blocks = <<>>
    /\ block_src = <<>>

CallExtract ==
    /\ pc = "extract"
    /\ LET e == ExtractEntries(content)
       IN /\ code_blocks' = BlocksOf(e)
          /\ block_src' = SourcesOf(e)
    /\ pc' = "extracted"
    /\ UNCHANGED <<question, client, raised, results, ui, clients_created,
                   provider_calls, extract_calls, doc_i, content>>

NextExtract == CallExtract

SpecExtract == InitExtract /\ [][NextExtract]_vars

\* ------------------------------------------------------------------------
\* Vocabulary of the properties
\* ------------------------------------------------------------------------
AllWhitespace(q) == \A k \in 1..Len(q) : q[k] \in {" ", "\t", "\n", "\r"}

Count(kind) == Len(OfKind(kind))

\* search_coding_answers was called and has returned
SearchReturned ==
    \/ pc \in {"returned", "display", "loop"}
    \/ pc = "done" /\ ~AllWhitespace(question)

\* sub occurs in s
Contains(s, sub) == \E k \in 1..(Len(s) + 1) : HasAt(s, k, sub)

\* the triple-backtick markers of s, left to right, not overlapping
RECURSIVE FencesFrom(_, _)
FencesFrom(s, i) ==
    IF i > Len(s) THEN <<>>
    ELSE IF HasAt(s, i, Fence) THEN <<i>> \o FencesFrom(s, i + 3)
    ELSE FencesFrom(s, i + 1)

FencePositions(s) == IF s = None THEN <<>> ELSE FencesFrom(s, 1)

\* the last marker opens a region that is never closed
UnterminatedFence(s) == Len(FencePositions(s)) % 2 = 1

LastFence(s) == FencePositions(s)[Len(FencePositions(s))]

\* where the text after the last marker starts
AfterLastFence(s) == LastFence(s) + Len(Fence)

\* the closed fenced regions: markers 1-2, 3-4, ... as [open, close]
ClosedRegions(s) ==
    LET f == FencePositions(s)
    IN { <<f[2 * k - 1], f[2 * k]>> : k \in 1..(Len(f) \div 2) }

\* the content of a closed region: what lies between the end of the line of
\* the opening marker and the closing marker; None when the opening marker
\* has no line of its own
RegionContent(s, r) ==
    LET nl == {k \in (r[1] + 3)..(r[2] - 1) : s[k] = "\n"}
    IN IF nl = {} THEN None ELSE SubSeq(s, Min(nl) + 1, r[2] - 1)

\* the blocks occur in s one after the other, in the order of the list
RECURSIVE EmbedsInOrder(_, _, _)
EmbedsInOrder(blocks, s, from) ==
    IF blocks = <<>> THEN TRUE
    ELSE LET at == FirstAt(s, from, Head(blocks))
         IN at # 0 /\ EmbedsInOrder(Tail(blocks), s, at + Len(Head(blocks)))

\* a def header line followed by one or more lines indented by four spaces
RECURSIVE IndentedLines(_)
IndentedLines(s) ==
    /\ HasAt(s, 1, Indent)
    /\ LET nl == FirstAt(s, 1, NL)
       IN /\ nl > Len(Indent) + 1
          /\ \/ nl = Len(s)
             \/ IndentedLines(SubSeq(s, nl + 1, Len(s)))

DefHeader == DefKw \o <<" ", "f", "(", ")", ":">>

IsDefInput(s) ==
    /\ s # None
    /\ HasAt(s, 1, DefHeader \o NL)
    /\ IndentedLines(SubSeq(s, Len(DefHeader) + 2, Len(s)))

\* ------------------------------------------------------------------------
\* C1: when a non-blank question is submitted and the provider call raises,
\* the page shows exactly one error message and extract_code_blocks is never
\* called.  The code writes two error messages: one in the except branch of
\* search_coding_answers and one in main.
\* ------------------------------------------------------------------------
C1_OneErrorOnProviderFault ==
    (pc = "done" /\ raised /\ ~AllWhitespace(question))
        => (Count("error") = 1 /\ extract_calls = <<>>)

\* ------------------------------------------------------------------------
\* C2: a submission whose question is empty or only whitespace creates no
\* search client and makes no provider call; its only output is one warning.
\* ------------------------------------------------------------------------
C2_BlankRejectedLocally ==
    (pc # "idle" /\ AllWhitespace(question))
        => /\ pc = "done"
           /\ clients_created = 0
           /\ provider_calls = 0
           /\ client = None
           /\ Len(ui) = 1
           /\ ui[1].kind = "warning"

C2_Witness ==
    /\ pc = "done"
    /\ question = <<" ", "\t">>
    /\ Count("warning") = 1

\* ------------------------------------------------------------------------
\* C3 as stated: every call of search_coding_answers issues exactly one
\* provider call, whatever the outcome of the client initialisation.
\* ------------------------------------------------------------------------
C3_ExactlyOneCallAlways == SearchReturned => provider_calls = 1

\* C3 as amended: a call of search_coding_answers issues at most one provider
\* call: exactly one when the client was initialised (whether the call then
\* returns or raises), none when the initialisation failed.
C3_OneCallIffClient ==
    /\ provider_calls <= 1
    /\ SearchReturned => provider_calls = (IF client = None THEN 0 ELSE 1)

C3_Witness ==
    /\ pc = "done"
    /\ client # None
    /\ raised
    /\ provider_calls = 1

\* ------------------------------------------------------------------------
\* C4: a valid response whose result list is empty renders exactly one
\* warning and no error message.
\* ------------------------------------------------------------------------
C4_EmptyResultIsWarning ==
    (pc = "done" /\ results.tag = "dict" /\ results.has_results
        /\ results.results = <<>>)
        => (Count("warning") = 1 /\ Count("error") = 0)

C4_Witness ==
    /\ pc = "done"
    /\ results.tag = "dict"
    /\ results.has_results
    /\ ~results.other_keys
    /\ results.results = <<>>
    /\ Count("warning") = 1

\* ------------------------------------------------------------------------
\* C5: for a def header line followed by one or more lines indented by four
\* spaces, extract_code_blocks returns a block that holds the header and the
\* indented lines.  The third alternative of the pattern has no capture
\* group, so its matches are dropped by the loop.
\* ------------------------------------------------------------------------
C5_DefBlockReturned ==
    (pc = "extracted" /\ IsDefInput(content))
        => \E k \in 1..Len(code_blocks) : Contains(code_blocks[k], RStrip(content))

\* ------------------------------------------------------------------------
\* C6: every closed fenced region with non-whitespace content, with no
\* language tag or with any language tag, is returned as one block, and a
\* block taken from a fence lies inside a closed fenced region.
\* ------------------------------------------------------------------------
C6_EveryFencedRegionReturned ==
    pc = "extracted" =>
        /\ \A r \in ClosedRegions(content) :
             LET c == RegionContent(content, r)
             IN (c # None /\ Strip(c) # <<>>)
                  => \E k \in 1..Len(code_blocks) : Strip(code_blocks[k]) = Strip(c)
        /\ \A k \in 1..Len(block_src) :
             block_src[k].kind = "fenced"
               => \E r \in ClosedRegions(content) :
                    r[1] < block_src[k].gs /\ block_src[k].ge <= r[2]

\* ------------------------------------------------------------------------
\* C7 as stated: when a fence is opened and never closed, no block is
\* emitted for the text after it; an input whose only fence is unterminated
\* and that has no <code> tag yields the empty list.
\* ------------------------------------------------------------------------
C7_NoBlockAfterUnterminatedFence ==
    (pc = "extracted" /\ UnterminatedFence(content)) =>
        /\ \A k \in 1..Len(block_src) : block_src[k].ge <= AfterLastFence(content)
        /\ (Len(FencePositions(content)) = 1 /\ ~Contains(content, CodeOpen))
             => code_blocks = <<>>

\* C7 as amended: when a fence is opened and never closed, no fenced block is
\* emitted for the text after it: a block that reaches into that text is the
\* content of a <code>...</code> region; an input whose only fence is
\* unterminated and that has no <code> tag yields the empty list.
C7_NoFencedBlockAfterUnterminatedFence ==
    (pc = "extracted" /\ UnterminatedFence(content)) =>
        /\ \A k \in 1..Len(block_src) :
             block_src[k].ge > AfterLastFence(content) => block_src[k].kind = "code"
        /\ (Len(FencePositions(content)) = 1 /\ ~Contains(content, CodeOpen))
             => code_blocks = <<>>

C7_Witness ==
    /\ pc = "extracted"
    /\ UnterminatedFence(content)
    /\ Strip(SubSeq(content, AfterLastFence(content), Len(content))) # <<>>
    /\ ~Contains(content, CodeOpen)
    /\ code_blocks = <<>>

\* ------------------------------------------------------------------------
\* C8: no returned block is empty or only whitespace, none begins with a
\* blank line or ends with whitespace; empty or None input returns the empty
\* list.
\* ------------------------------------------------------------------------
BeginsWithBlankLine(b) ==
    \E n \in 1..Len(b) : b[n] = "\n" /\ \A k \in 1..(n - 1) : b[k] \in {" ", "\t", "\r"}

C8_BlocksAreTrimmed ==
    pc = "extracted" =>
        /\ \A k \in 1..Len(code_blocks) :
             LET b == code_blocks[k]
             IN /\ b # <<>>
                /\ ~AllWhitespace(b)
                /\ ~BeginsWithBlankLine(b)
                /\ b[Len(b)] \notin {" ", "\t", "\n", "\r"}
        /\ (content = None \/ content = <<>>) => code_blocks = <<>>

C8_Witness ==
    /\ pc = "extracted"
    /\ \E k \in 1..Len(code_blocks) :
         LET raw == SubSeq(content, block_src[k].gs, block_src[k].ge - 1)
         IN /\ BeginsWithBlankLine(raw)
            /\ raw[Len(raw)] = "\n"
            /\ Len(code_blocks[k]) < Len(raw)

\* ------------------------------------------------------------------------
\* C9: the returned list is ordered by the start offset of each matched
\* region in the text, whatever the kind of the region.
\* ------------------------------------------------------------------------
C9_OrderedByStartOffset ==
    pc = "extracted" =>
        /\ Len(block_src) = Len(code_blocks)
        /\ \A k \in 1..Len(code_blocks) :
             /\ \/ block_src[k].kind = "fenced" /\ HasAt(content, block_src[k].start, Fence)
                \/ block_src[k].kind = "code" /\ HasAt(content, block_src[k].start, CodeOpen)
             /\ block_src[k].start < block_src[k].gs
             /\ Strip(code_blocks[k])
                  = Strip(SubSeq(content, block_src[k].gs, block_src[k].ge - 1))
        /\ \A j, k \in 1..Len(code_blocks) :
             j < k => block_src[j].start < block_src[k].start
        /\ content # None => EmbedsInOrder(code_blocks, content, 1)

C9_Witness ==
    /\ pc = "extracted"
    /\ Len(code_blocks) = 2
    /\ block_src[1].kind = "code"
    /\ block_src[2].kind = "fenced"
    /\ code_blocks[1] # code_blocks[2]

\* ------------------------------------------------------------------------
\* C10: for a response with n >= 1 documents display_results renders the n
\* documents in the order of the provider, and calls extract_code_blocks once
\* for each document whose raw_content is non-empty and for no other.
\* ------------------------------------------------------------------------
\* the documents handled so far
Handled == IF pc = "done" THEN Len(results.results) ELSE doc_i - 1

RECURSIVE WithRawContent(_, _)
WithRawContent(docs, k) ==
    IF k > Len(docs) THEN <<>>
    ELSE IF docs[k].raw_content \in {None, <<>>} THEN WithRawContent(docs, k + 1)
    ELSE <<k>> \o WithRawContent(docs, k + 1)

C10_RendersEveryDocumentInOrder ==
    ((pc = "loop" \/ pc = "done") /\ results.tag = "dict" /\ results.results # <<>>)
        => LET shown == OfKind("result")
           IN /\ Len(shown) = Handled
              /\ \A k \in 1..Len(shown) :
                   shown[k].n = k /\ shown[k].text = results.results[k].url
              /\ extract_calls = WithRawContent(SubSeq(results.results, 1, Handled), 1)

C10_Witness ==
    /\ pc = "done"
    /\ Len(results.results) = 2
    /\ results.results[1].url = "u2"
    /\ results.results[2].url = "u1"
    /\ results.results[1].raw_content = None
    /\ results.results[2].raw_content \notin {None, <<>>}
    /\ extract_calls = <<2>>

====
